---- MODULE Spec2Model ----
(***************************************************************************)
(* CheckMerge LLVM passes: DependenceCollector, SourceVariableMapper and   *)
(* CheckMergePrinter, driven by the legacy pass manager.                   *)
(*                                                                         *)
(* Per module the host calls doInitialization, then for every function of  *)
(* the module, in module order, the passes the printer requires            *)
(* (DependenceCollector, SourceVariableMapper), the printer itself, and    *)
(* releaseMemory of the two analyses once their last user has run; at the  *)
(* end of the module it calls doFinalization.                              *)
(*                                                                         *)
(* Text is a sequence of lines, each line a string that the code           *)
(* terminates with '\n'.                                                   *)
(***************************************************************************)
EXTENDS Integers, Sequences, FiniteSets, TLC

(***************************************************************************)
(* Bounds of the model.                                                    *)
(***************************************************************************)
\* longest result sequence the oracle returns for one non-local query
MaxNonLocal == 2
\* number of modules the host processes in one run
MaxModules == 2

(***************************************************************************)
(* The null pointer.                                                       *)
(***************************************************************************)
Null == 0

(***************************************************************************)
(* The programs under analysis.  An instruction is identified by its       *)
(* address, a positive integer; no two instructions share one.             *)
(***************************************************************************)
Inst(op, rd, wr, call, alloc, dbg, line, col) ==
    [opcode |-> op, mayRead |-> rd, mayWrite |-> wr, isCall |-> call,
     isAlloc |-> alloc, dbg |-> dbg, line |-> line, col |-> col]

NoDbg == [kind |-> "none", value |-> Null, var |-> ""]

Instructions ==
    (1 :> Inst("alloca", FALSE, FALSE, FALSE, TRUE, NoDbg, 0, 0)) @@
    (2 :> Inst("call", FALSE, FALSE, TRUE, FALSE,
               [kind |-> "declare", value |-> 1, var |-> "n"], 23, 9)) @@
    (3 :> Inst("store", FALSE, TRUE, FALSE, FALSE, NoDbg, 23, 9)) @@
    (4 :> Inst("load", TRUE, FALSE, FALSE, FALSE, NoDbg, 24, 12)) @@
    (5 :> Inst("ret", FALSE, FALSE, FALSE, FALSE, NoDbg, 24, 5)) @@
    (6 :> Inst("call", TRUE, TRUE, TRUE, FALSE, NoDbg, 9, 3)) @@
    (7 :> Inst("store", FALSE, TRUE, FALSE, FALSE, NoDbg, 10, 7)) @@
    (8 :> Inst("ret", FALSE, FALSE, FALSE, FALSE, NoDbg, 0, 0)) @@
    (9 :> Inst("alloca", FALSE, FALSE, FALSE, TRUE, NoDbg, 0, 0)) @@
    (10 :> Inst("br", FALSE, FALSE, FALSE, FALSE, NoDbg, 8, 5)) @@
    (11 :> Inst("alloca", FALSE, FALSE, FALSE, TRUE, NoDbg, 0, 0)) @@
    (12 :> Inst("call", FALSE, FALSE, TRUE, FALSE,
                [kind |-> "value", value |-> 11, var |-> "i"], 8, 14)) @@
    (13 :> Inst("call", TRUE, TRUE, TRUE, FALSE, NoDbg, 26, 5)) @@
    (14 :> Inst("ret", FALSE, FALSE, FALSE, FALSE, NoDbg, 27, 1)) @@
    (15 :> Inst("store", FALSE, TRUE, FALSE, FALSE, NoDbg, 17, 7)) @@
    (16 :> Inst("br", FALSE, FALSE, FALSE, FALSE, NoDbg, 0, 0)) @@
    (17 :> Inst("br", FALSE, FALSE, FALSE, FALSE, NoDbg, 0, 0)) @@
    (18 :> Inst("load", TRUE, FALSE, FALSE, FALSE, NoDbg, 19, 12)) @@
    (19 :> Inst("ret", FALSE, FALSE, FALSE, FALSE, NoDbg, 19, 5)) @@
    (20 :> Inst("ret", FALSE, FALSE, FALSE, FALSE, NoDbg, 0, 0))

\* a basic block: its address, its name and its instructions in program order
Block(addr, name, insts) == [addr |-> addr, name |-> name, insts |-> insts]

\* DISubprogram of a function; null when the function has no debug info
Subprogram(name, filename, line) ==
    [null |-> FALSE, name |-> name, filename |-> filename, line |-> line]
NoSubprogram == [null |-> TRUE, name |-> "", filename |-> "", line |-> 0]

\* a function: its IR name, its debug subprogram (name, file, line) or none,
\* and its basic blocks in program order
Functions ==
    ("copy" :> [subprogram |-> Subprogram("copy", "fibonacci.c", 22),
                blocks |-> << Block(101, "entry", <<1, 2, 3, 4, 5>>) >>]) @@
    ("touch" :> [subprogram |-> NoSubprogram,
                 blocks |-> << Block(102, "entry", <<6, 7, 8>>) >>]) @@
    ("join_call" :> [subprogram |-> Subprogram("main", "fibonacci.c", 21),
                     blocks |-> << Block(103, "entry", <<9, 10>>),
                                   Block(104, "then", <<11, 12>>),
                                   Block(105, "merge", <<13, 14>>) >>]) @@
    ("join_load" :> [subprogram |-> NoSubprogram,
                     blocks |-> << Block(106, "entry", <<15, 16>>),
                                   Block(107, "then", <<17>>),
                                   Block(108, "merge", <<18, 19>>) >>]) @@
    ("leaf" :> [subprogram |-> NoSubprogram,
                blocks |-> << Block(109, "entry", <<20>>) >>])

\* the modules the host may be given: source file name (its characters) and
\* functions in module order
Modules ==
    { [name |-> <<"f", "i", "b", ".", "c">>, functions |-> <<"copy", "touch">>],
      [name |-> <<"a", ".", "m", ".", "c">>, functions |-> <<"join_call", "leaf">>],
      [name |-> <<"l", "i", "b">>, functions |-> <<"join_load", "leaf">>] }

(***************************************************************************)
(* Sequence helpers.                                                       *)
(***************************************************************************)
RECURSIVE Flatten(_)
Flatten(ss) == IF ss = <<>> THEN <<>> ELSE Head(ss) \o Flatten(Tail(ss))

Range(s) == {s[k] : k \in 1..Len(s)}

\* all sequences over S of length at most n
SeqUpTo(S, n) == UNION {[1..k -> S] : k \in 0..n}

\* llvm::instructions(F): the instructions of F, blocks in program order and
\* each block's instructions in program order
InstructionsOf(f) ==
    Flatten([b \in 1..Len(Functions[f].blocks) |-> Functions[f].blocks[b].insts])

\* Instruction::mayReadOrWriteMemory
mayReadOrWriteMemory(i) == Instructions[i].mayRead \/ Instructions[i].mayWrite

\* index of the block of function f holding instruction i
BlockIndexOf(f, i) ==
    CHOOSE b \in 1..Len(Functions[f].blocks) : i \in Range(Functions[f].blocks[b].insts)

\* position of i inside its sequence
PosIn(s, x) == CHOOSE k \in 1..Len(s) : s[k] = x

\* the block with address bb
BlockAt(bb) ==
    CHOOSE blk \in UNION {Range(Functions[f].blocks) : f \in DOMAIN Functions} :
        blk.addr = bb

(***************************************************************************)
(* State.                                                                  *)
(***************************************************************************)
VARIABLES
    pc,          \* position of the host: "idle", "ready", "collected",
                 \* "mapped", "printed"
    module,      \* the module being processed
    next,        \* position in module.functions of the next function to run
    modules,     \* number of modules the host has started
    collector,   \* DependenceCollector: dependencies, function
    mapper,      \* SourceVariableMapper: mapping
    printer,     \* CheckMergePrinter: function, dependencies, variables,
                 \* instructions, filename, fileStream
    file,        \* text of the output file of the module being processed
    os,          \* text CheckMergePrinter::print wrote for the function in flight
    memdep,      \* the oracle's answers for the function in flight
    queried,     \* per instruction of the function in flight, the queries the
                 \* collector put to the oracle for it, in order
    opened,      \* per module started, whether its output file could be opened
    returned     \* the value the last pass function returned to the host

vars == <<pc, module, next, modules, collector, mapper, printer, file, os,
          memdep, queried, opened, returned>>

(***************************************************************************)
(* llvm::SmallSetVector and llvm::DenseMap.                                *)
(***************************************************************************)
\* insert of a plain vector: x is appended even when present
SetVectorInsertAlways(sv, x) == Append(sv, x)

\* insert that puts a new element in front
SetVectorInsertFront(sv, x) == IF x \in Range(sv) THEN sv ELSE <<x>> \o sv

\* SetVector::insert: append x unless already present
SetVectorInsert(sv, x) == IF x \in Range(sv) THEN sv ELSE Append(sv, x)

\* DenseMap::operator[]: the value of key k, default-constructed when absent
MapGet(m, k) == IF k \in DOMAIN m THEN m[k] ELSE <<>>

\* m[k] = v for a DenseMap
MapPut(m, k, v) == [x \in DOMAIN m \cup {k} |-> IF x = k THEN v ELSE m[x]]

EmptyMap == [x \in {} |-> <<>>]

(***************************************************************************)
(* The memory dependence oracle (MemoryDependenceResults).                 *)
(***************************************************************************)
\* MemDepResult: Clobber and Def carry an instruction, the others none
MemDepResult(kind, inst) == [kind |-> kind, inst |-> inst]

\* results of a scan of the instructions cands: an allocation is a Def, an
\* instruction that touches memory a Def or a Clobber
ScanResults(cands) ==
    {MemDepResult("Def", j) : j \in {c \in cands : Instructions[c].isAlloc}} \cup
    {MemDepResult(k, j) : k \in {"Clobber", "Def"},
                          j \in {c \in cands : mayReadOrWriteMemory(c)}}

\* what getDependency may answer for instruction i of function f when it is
\* not non-local: a Def or Clobber by an earlier instruction of i's block,
\* or a result without an instruction
LocalResults(f, i) ==
    LET blk == Functions[f].blocks[BlockIndexOf(f, i)].insts
        before == {blk[k] : k \in 1..(PosIn(blk, i) - 1)}
    IN  ScanResults(before) \cup
        {MemDepResult("NonFuncLocal", Null), MemDepResult("Unknown", Null)}

\* one entry of a non-local answer: the result of scanning a block that
\* precedes the block of i
NonLocalEntries(f, i) ==
    UNION { {[result |-> r, bb |-> Functions[f].blocks[b].addr] :
                r \in ScanResults(Range(Functions[f].blocks[b].insts))
                       \cup {MemDepResult("Unknown", Null)}} :
            b \in 1..(BlockIndexOf(f, i) - 1) }

\* the answers of the oracle for a memory-touching instruction i
MemoryAnswers(f, i) ==
    {[result |-> r, deps |-> <<>>] : r \in LocalResults(f, i)} \cup
    {[result |-> MemDepResult("NonLocal", Null), deps |-> s] :
        s \in SeqUpTo(NonLocalEntries(f, i), MaxNonLocal)}

\* the answers of the oracle for instruction i: the getDependency result
\* and, when that is non-local, the per-block result sequence; an instruction
\* that does not touch memory has the result Unknown
Answers(f, i) ==
    IF mayReadOrWriteMemory(i) THEN MemoryAnswers(f, i)
    ELSE {[result |-> MemDepResult("Unknown", Null), deps |-> <<>>]}

\* the oracles for the instructions insts of function f: one answer each
RECURSIVE OraclesOver(_, _)
OraclesOver(f, insts) ==
    IF insts = <<>> THEN {EmptyMap}
    ELSE {MapPut(o, Head(insts), a) :
            o \in OraclesOver(f, Tail(insts)), a \in Answers(f, Head(insts))}

\* an oracle for function f: one answer per instruction
Oracles(f) == OraclesOver(f, InstructionsOf(f))

getDependency(o, i) == o[i].result
getNonLocalCallDependency(o, i) == IF Instructions[i].isCall THEN o[i].deps ELSE <<>>
getNonLocalPointerDependency(o, i) == IF Instructions[i].isCall THEN <<>> ELSE o[i].deps

(***************************************************************************)
(* DependenceCollector.                                                    *)
(***************************************************************************)
isNonLocal(result) == result.kind = "NonLocal"

\* buildDependency without the isClobber test
buildDependencyNoClobber(result) ==
    LET t0 == "Unknown"
        t2 == IF result.kind = "Def" THEN "Def" ELSE t0
        t3 == IF result.kind = "NonFuncLocal" THEN "NonFuncLocal" ELSE t2
    IN  [inst |-> result.inst, type |-> t3]

\* DependenceCollector::buildDependency: the (instruction, type) pair
buildDependency(result) ==
    LET t0 == "Unknown"
        t1 == IF result.kind = "Clobber" THEN "Clobber" ELSE t0
        t2 == IF result.kind = "Def" THEN "Def" ELSE t1
        t3 == IF result.kind = "NonFuncLocal" THEN "NonFuncLocal" ELSE t2
    IN  [inst |-> result.inst, type |-> t3]

\* a pair that loses the block
buildDependencyPairNoBlock(dependency, block) == [first |-> dependency, second |-> Null]

\* DependenceCollector::buildDependencyPair
buildDependencyPair(dependency, block) == [first |-> dependency, second |-> block]

\* the loop over a non-local result sequence: one insert per entry
RECURSIVE InsertEntries(_, _, _)
InsertEntries(deps, inst, entries) ==
    IF entries = <<>> THEN deps
    ELSE LET e == Head(entries)
             pair == buildDependencyPair(buildDependency(e.result), e.bb)
         IN  InsertEntries(MapPut(deps, inst, SetVectorInsert(MapGet(deps, inst), pair)),
                           inst, Tail(entries))

\* the loop body without the mayReadOrWriteMemory test
CollectInstructionNoSkip(deps, o, inst) ==
    LET result == getDependency(o, inst)
    IN  IF ~isNonLocal(result)
        THEN MapPut(deps, inst,
                    SetVectorInsert(MapGet(deps, inst),
                                    buildDependencyPair(buildDependency(result), Null)))
        ELSE IF Instructions[inst].isCall
        THEN InsertEntries(deps, inst, getNonLocalCallDependency(o, inst))
        ELSE InsertEntries(deps, inst, getNonLocalPointerDependency(o, inst))

\* the loop body that records nothing for a local result without an
\* instruction
CollectInstructionSkipNull(deps, o, inst) ==
    IF ~mayReadOrWriteMemory(inst) THEN deps
    ELSE LET result == getDependency(o, inst)
         IN  IF ~isNonLocal(result)
             THEN IF result.inst = Null THEN deps
                  ELSE MapPut(deps, inst,
                              SetVectorInsert(MapGet(deps, inst),
                                  buildDependencyPair(buildDependency(result), Null)))
             ELSE IF Instructions[inst].isCall
             THEN InsertEntries(deps, inst, getNonLocalCallDependency(o, inst))
             ELSE InsertEntries(deps, inst, getNonLocalPointerDependency(o, inst))

\* the loop body asking for the pointer set of a call and for the call set
\* of any other instruction
CollectInstructionSwapped(deps, o, inst) ==
    IF ~mayReadOrWriteMemory(inst) THEN deps
    ELSE LET result == getDependency(o, inst)
         IN  IF ~isNonLocal(result)
             THEN MapPut(deps, inst,
                         SetVectorInsert(MapGet(deps, inst),
                                         buildDependencyPair(buildDependency(result), Null)))
             ELSE IF Instructions[inst].isCall
             THEN InsertEntries(deps, inst, getNonLocalPointerDependency(o, inst))
             ELSE InsertEntries(deps, inst, getNonLocalCallDependency(o, inst))

\* the body of the instruction loop of DependenceCollector::runOnFunction
CollectInstruction(deps, o, inst) ==
    IF ~mayReadOrWriteMemory(inst) THEN deps
    ELSE LET result == getDependency(o, inst)
         IN  IF ~isNonLocal(result)
             THEN MapPut(deps, inst,
                         SetVectorInsert(MapGet(deps, inst),
                                         buildDependencyPair(buildDependency(result), Null)))
             ELSE IF Instructions[inst].isCall
             THEN InsertEntries(deps, inst, getNonLocalCallDependency(o, inst))
             ELSE InsertEntries(deps, inst, getNonLocalPointerDependency(o, inst))

RECURSIVE CollectLoop(_, _, _)
CollectLoop(deps, o, insts) ==
    IF insts = <<>> THEN deps
    ELSE CollectLoop(CollectInstruction(deps, o, Head(insts)), o, Tail(insts))

\* the queries the loop body puts to the oracle for instruction inst
QueriesFor(o, inst) ==
    IF ~mayReadOrWriteMemory(inst) THEN << >>
    ELSE << "getDependency" >> \o
         (IF ~isNonLocal(getDependency(o, inst)) THEN << >>
          ELSE IF Instructions[inst].isCall
          THEN << "getNonLocalCallDependency" >>
          ELSE << "getNonLocalPointerDependency" >>)

\* DependenceCollector::runOnFunction on the next function of the module
CollectorRunOnFunction ==
    /\ pc = "ready"
    /\ next <= Len(module.functions)
    /\ LET f == module.functions[next]
       IN  \E o \in Oracles(f) :
              /\ memdep' = o
              /\ queried' = [i \in Range(InstructionsOf(f)) |-> QueriesFor(o, i)]
              /\ collector' = [function |-> f,
                               dependencies |->
                                CollectLoop(collector.dependencies, o, InstructionsOf(f))]
    /\ returned' = FALSE
    /\ pc' = "collected"
    /\ UNCHANGED <<module, next, modules, mapper, printer, file, os, opened>>

\* DependenceCollector::getDependencies
getDependencies == collector.dependencies

\* a releaseMemory that keeps the collected dependencies
CollectorKeepMemory == collector

\* DependenceCollector::releaseMemory
CollectorReleaseMemory == [function |-> Null, dependencies |-> EmptyMap]

(***************************************************************************)
(* SourceVariableMapper.                                                   *)
(***************************************************************************)
\* DbgInfoIntrinsic::isAddressOfVariable: llvm.dbg.declare and llvm.dbg.addr
isAddressOfVariable(i) == Instructions[i].dbg.kind \in {"declare", "addr"}

\* the body of the instruction loop of SourceVariableMapper::runOnFunction;
\* second is the address of the debug location of the intrinsic
MapInstruction(mapping, inst) ==
    IF Instructions[inst].dbg.kind = "none" THEN mapping
    ELSE IF isAddressOfVariable(inst)
         THEN MapPut(mapping, Instructions[inst].dbg.value,
                     [first |-> Instructions[inst].dbg.var, second |-> inst])
         ELSE mapping

RECURSIVE MapLoop(_, _)
MapLoop(mapping, insts) ==
    IF insts = <<>> THEN mapping
    ELSE MapLoop(MapInstruction(mapping, Head(insts)), Tail(insts))

\* SourceVariableMapper::runOnFunction; the function ends without a return
\* statement, so the value the host receives is indeterminate
MapperRunOnFunction ==
    /\ pc = "collected"
    /\ returned' \in BOOLEAN
    /\ mapper' = [mapping |-> MapLoop(mapper.mapping, InstructionsOf(collector.function))]
    /\ pc' = "mapped"
    /\ UNCHANGED <<module, next, modules, collector, printer, file, os, memdep,
                   queried, opened>>

\* SourceVariableMapper::getMapping
getMapping == mapper.mapping

\* a releaseMemory that keeps the mapping
MapperKeepMemory == mapper

\* SourceVariableMapper::releaseMemory
MapperReleaseMemory == [mapping |-> EmptyMap]

(***************************************************************************)
(* CheckMergePrinter: text.                                                *)
(***************************************************************************)
\* concatenation of the characters of cs
RECURSIVE Join(_)
Join(cs) == IF cs = <<>> THEN "" ELSE Head(cs) \o Join(Tail(cs))

\* CheckMergePrinter::indentLine
indentLine(str) == "  " \o str

\* CheckMergePrinter::withIndent: every line indented and ended by '\n'
withIndent(lines) == [k \in 1..Len(lines) |-> indentLine(lines[k])]

\* formatLocation(filename, line, col)
formatLocation3(filename, line, col) ==
    filename \o ":" \o ToString(line) \o ":" \o ToString(col)

\* formatLocation(line, col)
formatLocation2(line, col) == ":" \o ToString(line) \o ":" \o ToString(col)

\* formatIdentifier(prefix, descriptor)
formatIdentifier(prefix, descriptor) == prefix \o "." \o descriptor

formatIdentifierFunction(f) == formatIdentifier("function", f)

formatIdentifierBlock(bb) == formatIdentifier("block", BlockAt(bb).name)

\* std::find over the instruction index: the position found, or end
Find(instructions, inst) ==
    IF inst \in Range(instructions)
    THEN CHOOSE k \in 1..Len(instructions) :
            /\ instructions[k] = inst
            /\ \A j \in 1..(k - 1) : instructions[j] # inst
    ELSE Len(instructions) + 1

\* std::distance(instructions.begin(), find(...))
IndexOf(instructions, inst) == Find(instructions, inst) - 1

\* formatIdentifier(Instruction &)
formatIdentifierInstruction(p, inst) ==
    formatIdentifier("instruction", ToString(IndexOf(p.instructions, inst)))

\* formatDepType testing mayReadFromMemory first on both sides
formatDepTypeReadFirst(inst, depInst) ==
    LET after == IF Instructions[inst].mayRead THEN "R"
                 ELSE IF Instructions[inst].mayWrite THEN "W" ELSE "U"
        before == IF Instructions[depInst].mayRead THEN "R"
                  ELSE IF Instructions[depInst].mayWrite THEN "W" ELSE "U"
    IN  after \o "A" \o before

\* formatDepType with the two sides exchanged
formatDepTypeSwapped(inst, depInst) ==
    LET after == IF Instructions[depInst].mayRead THEN "R"
                 ELSE IF Instructions[depInst].mayWrite THEN "W" ELSE "U"
        before == IF Instructions[inst].mayWrite THEN "W"
                  ELSE IF Instructions[inst].mayRead THEN "R" ELSE "U"
    IN  after \o "A" \o before

\* CheckMergePrinter::formatDepType
formatDepType(inst, depInst) ==
    LET after == IF Instructions[inst].mayRead THEN "R"
                 ELSE IF Instructions[inst].mayWrite THEN "W" ELSE "U"
        before == IF Instructions[depInst].mayWrite THEN "W"
                  ELSE IF Instructions[depInst].mayRead THEN "R" ELSE "U"
    IN  after \o "A" \o before

\* Instruction::getDebugLoc is set
hasDebugLoc(i) == Instructions[i].line # 0

\* a loop body that reports a Clobber by its kind
DependencyLineKind(p, inst, dependencyPair) ==
    IF dependencyPair.first.inst # Null
    THEN [ref |-> formatIdentifierInstruction(p, dependencyPair.first.inst),
          type |-> IF dependencyPair.first.type = "Clobber" THEN "Clobber"
                   ELSE formatDepType(inst, dependencyPair.first.inst)]
    ELSE IF dependencyPair.second # Null
    THEN [ref |-> formatIdentifierBlock(dependencyPair.second), type |-> "Unknown"]
    ELSE [ref |-> "", type |-> ""]

\* the reference and type of one edge, as the dependency loop of
\* formatInstruction derives them; an empty reference emits no line
DependencyLine(p, inst, dependencyPair) ==
    IF dependencyPair.first.inst # Null
    THEN [ref |-> formatIdentifierInstruction(p, dependencyPair.first.inst),
          type |-> formatDepType(inst, dependencyPair.first.inst)]
    ELSE IF dependencyPair.second # Null
    THEN [ref |-> formatIdentifierBlock(dependencyPair.second), type |-> "Unknown"]
    ELSE [ref |-> "", type |-> ""]

\* the dependency loop without the test for an empty reference
DependencyLinesNoSkip(p, inst) ==
    LET ds == p.dependencies[inst]
    IN  [k \in 1..Len(ds) |-> DependencyLine(p, inst, ds[k])]

\* the (reference, type) pairs the dependency loop emits, in emission order
DependencyLines(p, inst) ==
    LET ds == p.dependencies[inst]
        all == [k \in 1..Len(ds) |-> DependencyLine(p, inst, ds[k])]
    IN  SelectSeq(all, LAMBDA l : l.ref # "")

\* CheckMergePrinter::formatInstruction
formatInstruction(p, inst) ==
    LET head == << "- " \o formatIdentifierInstruction(p, inst) \o ":" >>
        base == withIndent(<< "opcode: " \o Instructions[inst].opcode,
                              "location: \"" \o
                                (IF hasDebugLoc(inst)
                                 THEN formatLocation2(Instructions[inst].line,
                                                      Instructions[inst].col)
                                 ELSE "") \o "\"" >>)
        variable ==
            IF inst \in DOMAIN p.variables
            THEN LET v == p.variables[inst]
                 IN  withIndent(<< "variable:" >>) \o
                     withIndent(withIndent(
                        << "name: \"" \o v.first \o "\"",
                           "location: \"" \o
                             formatLocation2(Instructions[v.second].line,
                                             Instructions[v.second].col) \o "\"" >>))
            ELSE <<>>
        dependencies ==
            IF inst \in DOMAIN p.dependencies
            THEN LET ls == DependencyLines(p, inst)
                 IN  withIndent(<< "dependencies:" >>) \o
                     [k \in 1..Len(ls) |->
                        indentLine(indentLine("\"*" \o ls[k].ref \o "\": \"" \o
                                              ls[k].type \o "\""))]
            ELSE <<>>
    IN  head \o withIndent(base \o variable \o dependencies)

\* CheckMergePrinter::formatBasicBlock
formatBasicBlock(p, block) ==
    << formatIdentifierBlock(block.addr) \o ":" >> \o
    Flatten([k \in 1..Len(block.insts) |->
                withIndent(formatInstruction(p, block.insts[k]))])

\* CheckMergePrinter::formatFunction; moduleName is function.getParent()->getName()
formatFunction(p, f, moduleName) ==
    LET subprogram == Functions[f].subprogram
    IN  << formatIdentifierFunction(f) \o ":" >> \o
        withIndent(
            << "name: \"" \o (IF ~subprogram.null THEN subprogram.name ELSE f) \o "\"",
               "module: \"" \o moduleName \o "\"",
               "location: \"" \o
                 (IF ~subprogram.null
                  THEN formatLocation3(subprogram.filename, subprogram.line, 0)
                  ELSE "~") \o "\"" >>) \o
        << "" >> \o
        Flatten([b \in 1..Len(Functions[f].blocks) |->
                    withIndent(formatBasicBlock(p, Functions[f].blocks[b])) \o << "" >>])

(***************************************************************************)
(* CheckMergePrinter: passes.                                              *)
(***************************************************************************)
\* the index built without instructions.clear()
BuildInstructionsNoClear(f) ==
    printer.instructions \o
    Flatten([b \in 1..Len(Functions[f].blocks) |-> Functions[f].blocks[b].insts])

\* the loops of CheckMergePrinter::runOnFunction after instructions.clear():
\* one push_back per instruction, blocks and instructions in program order
BuildInstructions(f) ==
    Flatten([b \in 1..Len(Functions[f].blocks) |-> Functions[f].blocks[b].insts])

\* a write that replaces the text of the file
StreamOverwrite(text) ==
    IF printer.fileStream.open /\ ~printer.fileStream.fail THEN text ELSE file

\* std::ofstream::operator<< : text is appended while the stream is good
StreamWrite(text) ==
    IF printer.fileStream.open /\ ~printer.fileStream.fail THEN file \o text ELSE file

\* CheckMergePrinter::runOnFunction
PrinterRunOnFunction ==
    /\ pc = "mapped"
    /\ LET f == module.functions[next]
           p == [printer EXCEPT !.function = f,
                                !.instructions = BuildInstructions(f),
                                !.dependencies = getDependencies,
                                !.variables = getMapping]
       IN  /\ printer' = p
           /\ file' = IF printer.fileStream.open
                      THEN StreamWrite(formatFunction(p, f, Join(module.name)))
                      ELSE file
    /\ returned' = FALSE
    /\ pc' = "printed"
    /\ UNCHANGED <<module, next, modules, collector, mapper, os, memdep, queried,
                   opened>>

\* sum of the sizes of the edge sets of a dependency map
RECURSIVE DependencyCount(_)
DependencyCount(deps) ==
    IF DOMAIN deps = {} THEN 0
    ELSE LET k == CHOOSE x \in DOMAIN deps : TRUE
         IN  Len(deps[k]) + DependencyCount([x \in DOMAIN deps \ {k} |-> deps[x]])

\* the text CheckMergePrinter::print writes for printer state p
Summary(p) ==
    withIndent(
        << "Instructions:    " \o ToString(Len(p.instructions)),
           "Variables:       " \o ToString(Cardinality(DOMAIN p.variables)),
           "Dependencies:" >> \o
        withIndent(<< "Instructions:  " \o ToString(Cardinality(DOMAIN p.dependencies)) >>) \o
        withIndent(<< "Total:         " \o ToString(DependencyCount(p.dependencies)) >>) \o
        << "",
           "Written CheckMerge analysis data to file " \o p.filename >>)

\* CheckMergePrinter::print, called by the host after the pass ran when it
\* was asked to print analyses
PrinterPrint ==
    /\ pc = "printed"
    /\ os = <<>>
    /\ os' = Summary(printer)
    /\ UNCHANGED <<pc, module, next, modules, collector, mapper, printer, file,
                   memdep, queried, opened, returned>>

\* std::string::find_last_of('.'): position of the last '.', 0-based, or
\* npos, which substr(0, npos) takes as the length of the string
FindLastOf(cs) ==
    IF \E k \in 1..Len(cs) : cs[k] = "."
    THEN (CHOOSE k \in 1..Len(cs) :
            cs[k] = "." /\ \A j \in (k + 1)..Len(cs) : cs[j] # ".") - 1
    ELSE Len(cs)

\* the file name doInitialization derives from the source file name
OutputFileName(basename) == Join(SubSeq(basename, 1, FindLastOf(basename))) \o ".ll.cm"

\* an open that leaves the error state as it is on success
StreamOpenKeepFail(fs, ok) ==
    IF fs.open THEN [fs EXCEPT !.fail = TRUE]
    ELSE IF ok THEN [fs EXCEPT !.open = TRUE]
    ELSE [fs EXCEPT !.fail = TRUE]

\* std::ofstream::open: fails on a stream that is already open or when the
\* file cannot be opened (failbit); success clears the error state
StreamOpen(fs, ok) ==
    IF fs.open THEN [fs EXCEPT !.fail = TRUE]
    ELSE IF ok THEN [open |-> TRUE, fail |-> FALSE]
    ELSE [fs EXCEPT !.fail = TRUE]

\* CheckMergePrinter::doInitialization for a module the host loads; ok tells
\* whether the file system lets the output file be opened; the function ends
\* without a return statement, so the value the host receives is indeterminate
doInitialization ==
    /\ pc = "idle"
    /\ returned' \in BOOLEAN
    /\ modules < MaxModules
    /\ \E m \in Modules, ok \in BOOLEAN :
          /\ module' = m
          /\ opened' = Append(opened, ok)
          /\ printer' = [printer EXCEPT !.filename = OutputFileName(m.name),
                                        !.fileStream = StreamOpen(printer.fileStream, ok)]
    /\ file' = <<>>
    /\ next' = 1
    /\ modules' = modules + 1
    /\ pc' = "ready"
    /\ UNCHANGED <<collector, mapper, os, memdep, queried>>

\* the host frees the analyses after their last user, the printer, has run
\* on the function (releaseMemory of the collector and of the mapper)
ReleaseMemory ==
    /\ pc = "printed"
    /\ collector' = CollectorReleaseMemory
    /\ mapper' = MapperReleaseMemory
    /\ next' = next + 1
    /\ os' = <<>>
    /\ memdep' = <<>>
    /\ queried' = <<>>
    /\ pc' = "ready"
    /\ UNCHANGED <<module, modules, printer, file, opened, returned>>

\* CheckMergePrinter::doFinalization, once every function of the module ran;
\* it too ends without a return statement
doFinalization ==
    /\ pc = "ready"
    /\ returned' \in BOOLEAN
    /\ next > Len(module.functions)
    /\ printer' = [printer EXCEPT !.fileStream =
                        IF printer.fileStream.open
                        THEN [printer.fileStream EXCEPT !.open = FALSE]
                        ELSE printer.fileStream]
    /\ pc' = "idle"
    /\ UNCHANGED <<module, next, modules, collector, mapper, file, os, memdep,
                   queried, opened>>

(***************************************************************************)
(* The passes after construction and the specification.                    *)
(***************************************************************************)
Init ==
    /\ pc = "idle"
    /\ module = [name |-> <<>>, functions |-> <<>>]
    /\ next = 1
    /\ modules = 0
    /\ collector = [function |-> Null, dependencies |-> EmptyMap]
    /\ mapper = [mapping |-> EmptyMap]
    /\ printer = [function |-> Null, dependencies |-> EmptyMap, variables |-> EmptyMap,
                  instructions |-> <<>>, filename |-> "",
                  fileStream |-> [open |-> FALSE, fail |-> FALSE]]
    /\ file = <<>>
    /\ os = <<>>
    /\ memdep = <<>>
    /\ queried = <<>>
    /\ opened = <<>>
    /\ returned = FALSE

Next ==
    \/ doInitialization
    \/ CollectorRunOnFunction
    \/ MapperRunOnFunction
    \/ PrinterRunOnFunction
    \/ PrinterPrint
    \/ ReleaseMemory
    \/ doFinalization

Spec == Init /\ [][Next]_vars

(***************************************************************************)
(* Properties.                                                             *)
(***************************************************************************)
\* the function the passes are running on
Current == module.functions[next]

\* the output file of the module in progress could be opened
StreamOpened == opened # <<>> /\ opened[Len(opened)]

\* a function is in flight and the named pass has run on it
Collected == pc \in {"collected", "mapped", "printed"}
Printed == pc = "printed"

\* number of instructions in the blocks of f before block b
RECURSIVE BlockOffset(_, _)
BlockOffset(f, b) ==
    IF b = 1 THEN 0 ELSE BlockOffset(f, b - 1) + Len(Functions[f].blocks[b - 1].insts)

\* C1: after the printer ran on F, the index holds exactly the instructions
\* of F, each once, and the k-th instruction of block b (counting from 1) has
\* the ordinal (number of instructions in earlier blocks) + k - 1; no
\* instruction of another function is in the index.
C1_IndexCoversFunction ==
    Printed =>
        LET f == Current
            blocks == Functions[f].blocks
        IN  /\ \A b \in 1..Len(blocks) : \A k \in 1..Len(blocks[b].insts) :
                  IndexOf(printer.instructions, blocks[b].insts[k])
                      = BlockOffset(f, b) + k - 1
            /\ Range(printer.instructions) = Range(InstructionsOf(f))
            /\ Len(printer.instructions) = Cardinality(Range(InstructionsOf(f)))
            /\ \A i \in DOMAIN Instructions \ Range(InstructionsOf(f)) :
                  Find(printer.instructions, i) = Len(printer.instructions) + 1

\* the printer ran on a function of several blocks after other functions
C1_Witness ==
    /\ Printed
    /\ modules = 2
    /\ printer.function = "join_call"
    /\ IndexOf(printer.instructions, 13) = 4

\* the access mode of the claim: R if the instruction may read memory, else W
\* if it may write memory, else U
ReadFirstMode(i) ==
    IF Instructions[i].mayRead THEN "R"
    ELSE IF Instructions[i].mayWrite THEN "W" ELSE "U"

\* the access mode of a dependency: W if the instruction may write memory,
\* else R if it may read memory, else U
WriteFirstMode(i) ==
    IF Instructions[i].mayWrite THEN "W"
    ELSE IF Instructions[i].mayRead THEN "R" ELSE "U"

\* the edges of the printer's dependency map that name an instruction, as
\* (dependent, edge) pairs
InstructionEdges ==
    {<<i, e>> \in UNION {{i} \X Range(printer.dependencies[i]) :
                           i \in DOMAIN printer.dependencies} :
        e.first.inst # Null}

\* C2 as claimed: the code of every instruction-targeted edge is
\* <dependent mode>A<dependency mode>, both modes by the read-first rule.
C2_Original ==
    (Printed /\ StreamOpened) =>
        \A ie \in InstructionEdges :
            DependencyLine(printer, ie[1], ie[2]).type
                = ReadFirstMode(ie[1]) \o "A" \o ReadFirstMode(ie[2].first.inst)

\* C2: the code of every instruction-targeted edge is
\* <dependent mode>A<dependency mode>; the dependent's mode is R if it may
\* read, else W if it may write, else U; the dependency's mode is W if it
\* may write, else R if it may read, else U, so a dependency that may both
\* read and write contributes W.
C2_DepTypeModes ==
    Printed =>
        \A ie \in InstructionEdges :
            DependencyLine(printer, ie[1], ie[2]).type
                = ReadFirstMode(ie[1]) \o "A" \o WriteFirstMode(ie[2].first.inst)

\* a store depends on a call that may both read and write memory
C2_Witness ==
    /\ Printed
    /\ printer.function = "touch"
    /\ 7 \in DOMAIN printer.dependencies
    /\ \E e \in Range(printer.dependencies[7]) :
          /\ e.first.inst = 6
          /\ DependencyLine(printer, 7, e).type = "WAW"

\* C3: every key of the dependency map, in the collector and in the printer's
\* copy, is an instruction that may read or write memory.
C3_KeysTouchMemory ==
    /\ \A i \in DOMAIN collector.dependencies : mayReadOrWriteMemory(i)
    /\ \A i \in DOMAIN printer.dependencies : mayReadOrWriteMemory(i)

\* the collector ran on a function with instructions that do not touch
\* memory, for which the oracle has an answer, and recorded the others
C3_Witness ==
    /\ pc = "collected"
    /\ collector.function = "copy"
    /\ DOMAIN collector.dependencies = {3, 4}
    /\ \E i \in DOMAIN memdep : ~mayReadOrWriteMemory(i)

\* the edge the collector derives from one oracle result and its block
EdgeOf(result, bb) ==
    [first |-> [inst |-> result.inst,
                type |-> IF result.kind \in {"Clobber", "Def", "NonFuncLocal"}
                         THEN result.kind ELSE "Unknown"],
     second |-> bb]

\* the edges the oracle's answer for instruction i yields, in answer order
AnswerEdges(i) ==
    IF memdep[i].result.kind # "NonLocal"
    THEN << EdgeOf(memdep[i].result, Null) >>
    ELSE [k \in 1..Len(memdep[i].deps) |->
            EdgeOf(memdep[i].deps[k].result, memdep[i].deps[k].bb)]

\* the memory-touching instructions of the function in flight
MemoryInstructions == {i \in Range(InstructionsOf(Current)) : mayReadOrWriteMemory(i)}

\* C4 as claimed: no edge set holds two edges with the same (instruction,
\* kind) pair, and the report has at most one line per such pair.
C4_Original ==
    (Printed /\ StreamOpened) =>
        \A i \in DOMAIN printer.dependencies :
            LET es == printer.dependencies[i]
            IN  /\ \A k, l \in 1..Len(es) : es[k].first = es[l].first => k = l
                /\ Len(DependencyLines(printer, i))
                      <= Cardinality({es[k].first : k \in 1..Len(es)})

\* C4: the edge set of an instruction holds one edge per distinct
\* (instruction, kind, block) triple the oracle yields for it: a triple
\* yielded twice gives one edge and one line, while the same (instruction,
\* kind) pair yielded for two different blocks gives two edges and two lines.
C4_EdgesDedupPerBlock ==
    Collected =>
        \A i \in MemoryInstructions :
            LET es == MapGet(collector.dependencies, i)
                triples == Range(AnswerEdges(i))
            IN  /\ Range(es) = triples
                /\ Len(es) = Cardinality(triples)
                /\ (Printed /\ isNonLocal(memdep[i].result) /\ triples # {}) =>
                      Len(DependencyLines(printer, i)) = Cardinality(triples)

\* the oracle yielded the same (result, block) entry twice and the report has
\* one line for it
C4_Witness ==
    /\ Printed
    /\ printer.function = "join_call"
    /\ Len(memdep[13].deps) = 2
    /\ memdep[13].deps[1] = memdep[13].deps[2]
    /\ Len(printer.dependencies[13]) = 1
    /\ Len(DependencyLines(printer, 13)) = 1

\* position of the block with address bb among the blocks of f
BlockPosition(f, bb) ==
    CHOOSE b \in 1..Len(Functions[f].blocks) : Functions[f].blocks[b].addr = bb

\* the index of the target of an edge: instruction index, else block order
TargetIndex(e) ==
    IF e.first.inst # Null THEN IndexOf(printer.instructions, e.first.inst)
    ELSE BlockPosition(Current, e.second)

\* the edges of i that emit a dependency line, in emission order
EmittingEdges(i) ==
    SelectSeq(printer.dependencies[i],
              LAMBDA e : e.first.inst # Null \/ e.second # Null)

\* C5 as claimed: among the lines of one instruction, those that target an
\* instruction are in ascending order of instruction index and those that
\* target a block are in ascending order of block position.
C5_Original ==
    (Printed /\ StreamOpened) =>
        \A i \in DOMAIN printer.dependencies :
            LET es == EmittingEdges(i)
            IN  \A k, l \in 1..Len(es) :
                    (k < l /\ (es[k].first.inst = Null) = (es[l].first.inst = Null))
                        => TargetIndex(es[k]) <= TargetIndex(es[l])

\* position of the first occurrence of x in s
FirstIndex(s, x) ==
    CHOOSE a \in 1..Len(s) : s[a] = x /\ \A b \in 1..(a - 1) : s[b] # x

\* t holds the distinct elements of s in the order of their first occurrence
IsFirstOccurrenceOrder(t, s) ==
    /\ Range(t) = Range(s)
    /\ \A k, l \in 1..Len(t) : t[k] = t[l] => k = l
    /\ \A k, l \in 1..Len(t) : k < l => FirstIndex(s, t[k]) < FirstIndex(s, t[l])

\* C5: the dependency lines of an instruction appear in the order in which
\* the oracle returned the results, each distinct (instruction, kind, block)
\* result at its first occurrence, whatever the indices of the targets.
C5_LinesInOracleOrder ==
    Printed =>
        \A i \in DOMAIN printer.dependencies :
            LET es == EmittingEdges(i)
                ls == DependencyLines(printer, i)
            IN  /\ IsFirstOccurrenceOrder(printer.dependencies[i], AnswerEdges(i))
                /\ Len(ls) = Len(es)
                /\ \A k \in 1..Len(ls) : ls[k] = DependencyLine(printer, i, es[k])

\* the oracle returned a later instruction before an earlier one and the
\* lines keep that order
C5_Witness ==
    /\ Printed
    /\ printer.function = "join_call"
    /\ Len(memdep[13].deps) = 2
    /\ memdep[13].deps[1].result.inst = 11
    /\ memdep[13].deps[2].result.inst = 9
    /\ DependencyLines(printer, 13)[1].ref = "instruction.2"
    /\ DependencyLines(printer, 13)[2].ref = "instruction.0"

\* s is a prefix of t
IsPrefix(s, t) == Len(s) <= Len(t) /\ SubSeq(t, 1, Len(s)) = s

\* the first lines of the function reports in text, in order
FunctionHeaders(text) ==
    SelectSeq(text, LAMBDA l :
        l \in {formatIdentifierFunction(f) \o ":" : f \in DOMAIN Functions})

\* the first lines of the reports of the first n functions of the module
ExpectedHeaders(n) ==
    [k \in 1..n |-> formatIdentifierFunction(module.functions[k]) \o ":"]

\* number of functions of the module the printer has run on
Analyzed == IF pc = "printed" THEN next ELSE next - 1

\* C6: while a module is processed the text of its file only grows; for a
\* module whose stream opened, each run of the printer appends the report of
\* the function it ran on, so the reports in the file are those of the
\* analyzed functions in analysis order; once the module is finalized the
\* stream is closed.
C6_ReportsAppendedInOrder ==
    [][ /\ pc # "idle" => IsPrefix(file, file')
        /\ (pc = "mapped" /\ pc' = "printed" /\ StreamOpened) =>
              /\ file' = file \o formatFunction(printer', Current, Join(module.name))
              /\ Len(FunctionHeaders(file')) = Len(FunctionHeaders(file)) + 1
        /\ (pc' # "idle" /\ StreamOpened') =>
              FunctionHeaders(file') = ExpectedHeaders(Analyzed')
        /\ pc' = "idle" => ~printer'.fileStream.open
      ]_vars

\* the second function of a module whose stream opened has been reported
C6_Witness ==
    /\ Printed
    /\ next = 2
    /\ StreamOpened
    /\ Len(FunctionHeaders(file)) = 2

\* the three structures as the passes build them for f from their state
\* after construction
Alone(f) ==
    [printer EXCEPT !.function = f,
                    !.instructions = InstructionsOf(f),
                    !.dependencies = CollectLoop(EmptyMap, memdep, InstructionsOf(f)),
                    !.variables = MapLoop(EmptyMap, InstructionsOf(f))]

C8_OpenFailureIsPerModule ==
    /\ (pc # "idle" /\ ~StreamOpened) => (file = <<>> /\ ~printer.fileStream.open)
    /\ Printed =>
          /\ printer.function = Current
          /\ printer.instructions = InstructionsOf(Current)
          /\ printer.dependencies = collector.dependencies
          /\ printer.variables = mapper.mapping
    /\ (pc # "idle" /\ StreamOpened) =>
          /\ printer.fileStream.open
          /\ FunctionHeaders(file) = ExpectedHeaders(Analyzed)

\* the stream of the first module failed to open and a function of the
\* second module has been reported
C8_Witness ==
    /\ opened = <<FALSE, TRUE>>
    /\ Printed
    /\ FunctionHeaders(file) # <<>>

\* C9 as claimed: no key maps to an empty edge set or to a set holding only
\* an edge with neither an instruction nor a block.
C9_Original ==
    \A i \in DOMAIN collector.dependencies :
        LET es == collector.dependencies[i]
        IN  /\ es # <<>>
            /\ \E k \in 1..Len(es) : es[k].first.inst # Null \/ es[k].second # Null

\* the line that opens the dependencies section of an instruction report
DependenciesHeader == indentLine(indentLine("dependencies:"))

\* C9: no key maps to an empty edge set.  An instruction whose non-local
\* result sequence is empty is absent from the map and its report has no
\* dependencies section.  An instruction with a local result without an
\* instruction is a key whose edge set is the single edge with neither
\* instruction nor block; its report has the dependencies header and no
\* dependency line.
C9_NoDependencyEntries ==
    Collected =>
        /\ \A i \in DOMAIN collector.dependencies : collector.dependencies[i] # <<>>
        /\ \A i \in MemoryInstructions :
              LET r == memdep[i].result
              IN  /\ (isNonLocal(r) /\ memdep[i].deps = <<>>) =>
                        /\ i \notin DOMAIN collector.dependencies
                        /\ Printed =>
                              DependenciesHeader \notin Range(formatInstruction(printer, i))
                  /\ (~isNonLocal(r) /\ r.inst = Null) =>
                        /\ i \in DOMAIN collector.dependencies
                        /\ collector.dependencies[i] = << EdgeOf(r, Null) >>
                        /\ Printed =>
                              /\ DependenciesHeader \in Range(formatInstruction(printer, i))
                              /\ DependencyLines(printer, i) = <<>>

\* one instruction has an empty non-local answer and another a local result
\* without an instruction
C9_Witness ==
    /\ Printed
    /\ printer.function = "touch"
    /\ isNonLocal(memdep[6].result)
    /\ memdep[7].result = MemDepResult("Unknown", Null)
    /\ DOMAIN printer.dependencies = {7}

\* the last n lines of text
LastLines(text, n) == SubSeq(text, Len(text) - n + 1, Len(text))

\* C10: the report the printer writes for a function is the text a printer
\* fresh from construction writes for the same function, oracle answers and
\* variable table: whatever was analysed before, equal inputs give equal text.
C10_ReportIndependentOfHistory ==
    (Printed /\ StreamOpened) =>
        LET report == formatFunction(Alone(Current), Current, Join(module.name))
        IN  /\ Len(file) >= Len(report)
            /\ LastLines(file, Len(report)) = report

\* a function has been reported in the second module of a run
C10_Witness ==
    /\ Printed
    /\ modules = 2
    /\ StreamOpened
    /\ collector.function = "join_call"
    /\ Len(file) > 0

\* the ordinal of instruction i of function f: the number of instructions in
\* earlier blocks plus its position in its block, counting from 0
Ordinal(f, i) ==
    LET b == BlockIndexOf(f, i)
    IN  BlockOffset(f, b) + PosIn(Functions[f].blocks[b].insts, i) - 1

\* a dependency line in the report of an instruction, as text
ReportLine(ref, code) ==
    indentLine(indentLine(indentLine("\"*" \o ref \o "\": \"" \o code \o "\"")))

\* i is a call with a non-local result whose call dependency sequence has two
\* entries, for two different blocks, each a Def
TwoDefiningBlocks(i) ==
    /\ Instructions[i].isCall
    /\ isNonLocal(memdep[i].result)
    /\ Len(memdep[i].deps) = 2
    /\ memdep[i].deps[1].bb # memdep[i].deps[2].bb
    /\ \A k \in 1..2 : memdep[i].deps[k].result.kind = "Def"

\* C11 as claimed: the report of such a call has exactly two dependency
\* lines and each carries the identifier of its respective block.
C11_Original ==
    (Printed /\ StreamOpened) =>
        \A i \in MemoryInstructions :
            TwoDefiningBlocks(i) =>
                LET ls == DependencyLines(printer, i)
                IN  /\ Len(ls) = 2
                    /\ \A k \in 1..2 :
                          ls[k].ref = formatIdentifierBlock(memdep[i].deps[k].bb)

\* C11: for a call with a non-local result and two call dependency entries,
\* one per block, each a Def, the dependency map holds exactly two edges for
\* the call, each carrying its defining instruction and its respective
\* block, and the report of the call ends with exactly two dependency lines;
\* each line names the defining instruction (instruction.<ordinal>) with its
\* code, and the block identifier is not printed.
C11_TwoBlockEdges ==
    Collected =>
        \A i \in MemoryInstructions :
            TwoDefiningBlocks(i) =>
                LET es == MapGet(collector.dependencies, i)
                    ds == memdep[i].deps
                    ls == DependencyLines(printer, i)
                    text == formatInstruction(printer, i)
                IN  /\ Len(es) = 2
                    /\ \A k \in 1..2 :
                          /\ es[k].second = ds[k].bb
                          /\ es[k].first = [inst |-> ds[k].result.inst, type |-> "Def"]
                    /\ Printed =>
                          /\ Len(ls) = 2
                          /\ \A k \in 1..2 :
                                /\ ls[k].ref = formatIdentifier("instruction",
                                        ToString(Ordinal(Current, ds[k].result.inst)))
                                /\ ls[k].ref # formatIdentifierBlock(ds[k].bb)
                                /\ ls[k].type = ReadFirstMode(i) \o "A" \o
                                        WriteFirstMode(ds[k].result.inst)
                          /\ LastLines(text, 3) =
                                << DependenciesHeader,
                                   ReportLine(ls[1].ref, ls[1].type),
                                   ReportLine(ls[2].ref, ls[2].type) >>

\* the call of join_call depends on a Def in each of the two blocks before
\* its own and its report has been written
C11_Witness ==
    /\ Printed
    /\ StreamOpened
    /\ printer.function = "join_call"
    /\ memdep[13].deps = << [result |-> MemDepResult("Def", 9), bb |-> 103],
                            [result |-> MemDepResult("Def", 11), bb |-> 104] >>
    /\ Len(printer.dependencies[13]) = 2
    /\ DependencyLines(printer, 13)[1].ref = "instruction.0"
    /\ DependencyLines(printer, 13)[2].ref = "instruction.2"

\* i is a load and the oracle names, as a local result, a store j that
\* precedes it in the same block with no call in between
StoreThenLoad(i, j) ==
    LET insts == Functions[Current].blocks[BlockIndexOf(Current, i)].insts
    IN  /\ Instructions[i].opcode = "load"
        /\ ~isNonLocal(memdep[i].result)
        /\ memdep[i].result.inst = j
        /\ j \in Range(insts)
        /\ Instructions[j].opcode = "store"
        /\ PosIn(insts, j) < PosIn(insts, i)
        /\ \A k \in (PosIn(insts, j) + 1)..(PosIn(insts, i) - 1) :
              ~Instructions[insts[k]].isCall

\* C12: when the oracle answers a load with a local result that names a
\* store earlier in the same block, no call in between, the dependency entry
\* of the load holds exactly one edge, its target is the store and it has no
\* block; the report of the load ends with the dependencies header and the
\* single line "*instruction.<ordinal of the store>": "RAW".
C12_StoreLoadRAW ==
    Collected =>
        \A i \in MemoryInstructions : \A j \in Range(InstructionsOf(Current)) :
            StoreThenLoad(i, j) =>
                LET es == MapGet(collector.dependencies, i)
                    ref == "instruction." \o ToString(Ordinal(Current, j))
                IN  /\ Len(es) = 1
                    /\ es[1].first.inst = j
                    /\ es[1].second = Null
                    /\ Printed =>
                          /\ DependencyLines(printer, i) = << [ref |-> ref, type |-> "RAW"] >>
                          /\ LastLines(formatInstruction(printer, i), 2) =
                                << DependenciesHeader, ReportLine(ref, "RAW") >>

\* the load of copy depends on the store before it and the line is in the
\* file of the module
C12_Witness ==
    /\ Printed
    /\ StreamOpened
    /\ printer.function = "copy"
    /\ StoreThenLoad(4, 3)
    /\ Len(printer.dependencies[4]) = 1
    /\ indentLine(indentLine(ReportLine("instruction.2", "RAW"))) \in Range(file)

\* the lines of the report of an instruction that follow the dependencies
\* header
DependencySection(text) ==
    SubSeq(text, FirstIndex(text, DependenciesHeader) + 1, Len(text))

\* the lines one edge e of instruction i is to give: none for an edge with
\* neither instruction nor block, the block identifier with "Unknown" for
\* an edge with a block only, the instruction identifier with the code of
\* the two access modes for an edge with an instruction
ExpectedLines(i, e) ==
    IF e.first.inst # Null
    THEN << ReportLine("instruction." \o ToString(Ordinal(Current, e.first.inst)),
                       ReadFirstMode(i) \o "A" \o WriteFirstMode(e.first.inst)) >>
    ELSE IF e.second # Null
    THEN << ReportLine("block." \o BlockAt(e.second).name, "Unknown") >>
    ELSE << >>

\* C13: in the report of an instruction with a dependency entry, the lines
\* after the dependencies header are, edge by edge in the order of the edge
\* set, nothing for an edge with neither instruction nor block, the block
\* identifier with the code "Unknown" for an edge with a block and no
\* instruction, and the instruction identifier with the classify code for an
\* edge with an instruction; their number is the number of edges that have
\* an instruction or a block.
C13_OneLinePerTargetedEdge ==
    Printed =>
        \A i \in DOMAIN printer.dependencies :
            LET es == printer.dependencies[i]
                section == DependencySection(formatInstruction(printer, i))
            IN  /\ section = Flatten([k \in 1..Len(es) |-> ExpectedLines(i, es[k])])
                /\ Len(section) =
                      Cardinality({k \in 1..Len(es) :
                                      es[k].first.inst # Null \/ es[k].second # Null})

\* the report of join_load has an instruction whose only edge has neither
\* instruction nor block and one with a block edge and an instruction edge
C13_Witness ==
    /\ Printed
    /\ printer.function = "join_load"
    /\ printer.dependencies[15] = << EdgeOf(MemDepResult("Unknown", Null), Null) >>
    /\ DependencySection(formatInstruction(printer, 15)) = << >>
    /\ memdep[18].deps = << [result |-> MemDepResult("Unknown", Null), bb |-> 107],
                            [result |-> MemDepResult("Def", 15), bb |-> 106] >>
    /\ DependencySection(formatInstruction(printer, 18)) =
          << ReportLine("block.then", "Unknown"), ReportLine("instruction.0", "RAW") >>

\* the edges the entries ds of a non-local answer yield
EntryEdges(ds) == {EdgeOf(ds[k].result, ds[k].bb) : k \in 1..Len(ds)}

\* C14: for a memory-touching instruction the collector takes exactly one of
\* three paths.  A result that is not non-local gives exactly one edge, with
\* the instruction of the result and no block, and no further query.  A
\* non-local result of a call gives one edge per distinct (result, block)
\* entry of the call dependency set, each with the block of its entry, and
\* only the call set is queried.  A non-local result of any other
\* instruction gives one edge per distinct (result, block) entry of the
\* pointer dependency set, each with the block of its entry, and only the
\* pointer set is queried.  An instruction that does not touch memory is not
\* looked up at all.
C14_OnePathPerInstruction ==
    Collected =>
        \A i \in Range(InstructionsOf(Current)) :
            LET r == memdep[i].result
                ds == memdep[i].deps
                es == MapGet(collector.dependencies, i)
            IN  IF ~mayReadOrWriteMemory(i)
                THEN queried[i] = << >> /\ es = << >>
                ELSE IF ~isNonLocal(r)
                THEN /\ queried[i] = << "getDependency" >>
                     /\ es = << [first |-> [inst |-> r.inst, type |-> EdgeOf(r, Null).first.type],
                                 second |-> Null] >>
                ELSE /\ queried[i] =
                          << "getDependency",
                             IF Instructions[i].isCall THEN "getNonLocalCallDependency"
                             ELSE "getNonLocalPointerDependency" >>
                     /\ Range(es) = EntryEdges(ds)
                     /\ Len(es) = Cardinality(Range(ds))
                     /\ \A k \in 1..Len(es) :
                           /\ es[k].second # Null
                           /\ \E l \in 1..Len(ds) :
                                 /\ es[k].second = ds[l].bb
                                 /\ es[k].first.inst = ds[l].result.inst

\* the collector ran on join_load: the store of the entry block has a local
\* result and the load of the merge block a non-local result with entries
\* for two blocks
C14_Witness ==
    /\ pc = "collected"
    /\ collector.function = "join_load"
    /\ ~isNonLocal(memdep[15].result)
    /\ Len(collector.dependencies[15]) = 1
    /\ isNonLocal(memdep[18].result)
    /\ queried[18] = << "getDependency", "getNonLocalPointerDependency" >>
    /\ Len(MapGet(collector.dependencies, 18)) = 2
    /\ collector.dependencies[18][1].second # collector.dependencies[18][2].second

\* the edges stored in the collector's dependency map, as (dependent, edge)
\* pairs
StoredEdges ==
    UNION {{i} \X Range(collector.dependencies[i]) : i \in DOMAIN collector.dependencies}

\* C15 as claimed: every stored edge has either an instruction or a block,
\* never both and never neither.
C15_Original ==
    \A ie \in StoredEdges :
        (ie[2].first.inst # Null) # (ie[2].second # Null)

\* C15: every stored edge has an optional instruction and an optional block.
\* The block is present exactly when the edge comes from a non-local result
\* and the instruction exactly when the kind is Def or Clobber: the edge of
\* a local Def or Clobber has an instruction only, the edge of a non-local
\* entry without an instruction a block only, the edge of a non-local Def or
\* Clobber both, and the edge of a local NonFuncLocal or Unknown result
\* neither.
C15_TargetsOptional ==
    Collected =>
        \A ie \in StoredEdges :
            LET i == ie[1]
                e == ie[2]
            IN  /\ (e.second # Null) <=> isNonLocal(memdep[i].result)
                /\ (e.first.inst # Null) <=> (e.first.type \in {"Clobber", "Def"})
                /\ e.second # Null =>
                      e.second \in {Functions[Current].blocks[b].addr :
                                       b \in 1..Len(Functions[Current].blocks)}
                /\ e.first.inst # Null => e.first.inst \in Range(InstructionsOf(Current))

\* the map of join_load holds an edge with neither instruction nor block and
\* an edge with both
C15_Witness ==
    /\ Collected
    /\ collector.function = "join_load"
    /\ \E e \in Range(MapGet(collector.dependencies, 15)) :
          e.first.inst = Null /\ e.second = Null
    /\ \E e \in Range(MapGet(collector.dependencies, 18)) :
          e.first.inst = 15 /\ e.second = 106

\* printer state p with the kind of every edge replaced by kind
WithKind(p, kind) ==
    [p EXCEPT !.dependencies =
        [i \in DOMAIN p.dependencies |->
            [k \in 1..Len(p.dependencies[i]) |->
                [p.dependencies[i][k] EXCEPT !.first.type = kind]]]]

\* C16: the kind stored on an edge does not reach the report.  The report
\* of every instruction is the same text when every kind is replaced by any
\* one kind; the line of an edge with an instruction is its identifier with
\* the code of the access modes of the two instructions; and two edges of
\* one instruction with the same target instruction, which differ in kind
\* or in block, give identical lines.
C16_KindNotReported ==
    Printed =>
        /\ \A kind \in {"Clobber", "Def", "NonFuncLocal", "Unknown"} :
              \A i \in Range(InstructionsOf(Current)) :
                  formatInstruction(WithKind(printer, kind), i) = formatInstruction(printer, i)
        /\ \A i \in DOMAIN printer.dependencies :
              LET es == printer.dependencies[i]
              IN  \A k, l \in 1..Len(es) :
                      (es[k].first.inst # Null /\ es[k].first.inst = es[l].first.inst) =>
                          /\ DependencyLine(printer, i, es[k]) = DependencyLine(printer, i, es[l])
                          /\ DependencyLine(printer, i, es[k]).type =
                                ReadFirstMode(i) \o "A" \o WriteFirstMode(es[k].first.inst)

\* the load of join_load has two edges to the same store, one a Def and one
\* a Clobber, and its report has the same line twice
C16_Witness ==
    /\ Printed
    /\ printer.function = "join_load"
    /\ memdep[18].deps = << [result |-> MemDepResult("Def", 15), bb |-> 106],
                            [result |-> MemDepResult("Clobber", 15), bb |-> 106] >>
    /\ Len(printer.dependencies[18]) = 2
    /\ printer.dependencies[18][1].first.type # printer.dependencies[18][2].first.type
    /\ DependencySection(formatInstruction(printer, 18)) =
          << ReportLine("instruction.0", "RAW"), ReportLine("instruction.0", "RAW") >>

====
